---- MODULE Spec2Model ----
(***************************************************************************)
(* Batching / flush engine of the kubernetes-lightweight-logger            *)
(* (src/logger/src/index.js, lines 1-260: the current revision).           *)
(*                                                                         *)
(* The program is single-threaded JavaScript.  An async function runs      *)
(* without interruption up to an await of real I/O (createIfNotExists,     *)
(* appendBlock, fs.appendFile); an await of an already settled promise     *)
(* only yields to the microtask queue, and line events, timer ticks,       *)
(* signals and I/O completions are macrotasks, so such an await is no      *)
(* interleaving point.  Every action below is one macrotask: an event      *)
(* handler, or the continuation of one async invocation after one I/O      *)
(* call settles, run up to its next I/O call.                              *)
(***************************************************************************)
EXTENDS Integers, Sequences, FiniteSets, TLC

\* ------------------------------------------------------------ bounds
Containers == {"a", "b"}
\* The bounds depend on the configuration read at startup, so that the
\* configurations with the smaller state are explored deeper: a line storm
\* (remote sink, one blob per container), a run over two midnights (remote
\* sink, one blob per day), both without I/O failures, and the base bounds
\* (with failures) for the rest.
MaxLines == 3          \* lines emitted in total by all tailed files
OtherLines == 1        \* lines of them emitted by the second file
MaxDay == 1            \* the clock runs over the UTC days 0..MaxDay
MaxTasks == 2          \* async invocations suspended at the same time
BothLines == 2         \* MaxLines with both sinks
StormLines == 5        \* MaxLines in the line storm
StormOtherLines == 0   \* OtherLines in the line storm
StormTasks == 3        \* MaxTasks in the line storm
RolloverDays == 2      \* MaxDay in the run over two midnights
MaxAttempts == 2       \* cap of the flush-attempt counter kept after a signal
MaxFails == 1          \* I/O calls that reject in one run
MaxSignals == 1        \* termination signals received in one run
RepeatSignals == 2     \* the same where signals are repeated (LOCAL)
DeepFails == 0         \* MaxFails in the line storm and over two midnights
ProbeLines == 2        \* MaxLines in the runs that set a message-filter variable
ProbeOtherLines == 0   \* OtherLines in those runs
ProbeDays == 0         \* MaxDay in those runs
ProbeFails == 0        \* MaxFails in those runs

\* index.js:26 sets 50000; scaled down so that a batch can reach it, and kept
\* above 2 so that a batch can grow during a flush without reaching it.
BATCH_SIZE_THRESHOLD == 3

Tasks == 1..StormTasks
\* the directory part of a name without one
NoDir == <<>>

\* ------------------------------------------------------------ files
Files == {"a_1.log", "b_1.log"}
\* path.basename(logFilePath).split("_")[0]
ContainerNameOf(f) == IF f = "a_1.log" THEN "a" ELSE "b"
\* the characters of a container name
NameText(c) == <<c>>
\* what globby can return at startup: the files that exist by then
InitialEnumerations == {<<>>, <<"a_1.log">>, <<"a_1.log", "b_1.log">>}

VARIABLES
    LOG_OUTPUT_DESTINATION, \* "AZURE" | "LOCAL" | "BOTH" or another text, read once
    STORE_BY_DATE,          \* BOOLEAN, read once
    env,                    \* the rest of process.env that the program reads
    date,                   \* the current UTC day
    proc,                   \* "running" | "exit0" | "exit1"
    online,                 \* "starting" | "online" | "failed": main()'s outcome
    trackedFiles,           \* set of file paths
    listeners,              \* files with a "line" listener attached
    blobClients,            \* container -> name its append client is bound to
    logBatches,             \* container -> sequence of records
    batchKeys,              \* Object.keys(logBatches), in insertion order
    tasks,                  \* the suspended async invocations
    azureSink,              \* container -> its appendBlock calls that succeeded, in order
    localSink,              \* container -> its fs.appendFile calls that succeeded, in order
    appended,               \* container -> number of records ever pushed
    nLines,                 \* history: the number of "line" events so far
    tracks,                 \* history: file path -> number of trackFile calls
    timers,                 \* number of registered interval timers
    nFails,                 \* history: the number of I/O calls that rejected
    retired,                \* history: container -> names its client was rebound from
    signalled,              \* history: a termination signal was received
    nSignals,               \* history: the number of signals received
    drain,                  \* history: "none" | "clean" | "threw": how the
                            \* uploadAllLogBatches of the gracefulShutdown that
                            \* called process.exit ended
    atSignal,               \* history: containers whose batch was non-empty at
                            \* the first signal
    attempts                \* history: container of atSignal -> flushes of it
                            \* begun since the first signal

vars == <<LOG_OUTPUT_DESTINATION, STORE_BY_DATE, env, date, proc, online, trackedFiles,
          listeners, blobClients, logBatches, batchKeys, tasks, azureSink,
          localSink, appended, nLines, tracks, timers, nFails, retired, signalled, nSignals,
          drain, atSignal, attempts>>

config == <<LOG_OUTPUT_DESTINATION, STORE_BY_DATE, env>>
history == <<nLines, tracks, nFails, retired, signalled, nSignals, drain, atSignal, attempts>>

\* ------------------------------------------------------------ environment
\* A text is a sequence of characters.  env holds, for the storage account,
\* whether STORAGE_ACCOUNT_NAME and STORAGE_ACCOUNT_KEY are both set, and
\* the texts of the variables below; <<>> is a variable that is unset or
\* empty (the program tells the two apart nowhere).
PlainEnv ==
    [credentials |-> TRUE, WATCH_CONTAINERS |-> <<>>, FILTER_BY_MESSAGE |-> <<>>,
     WATCH_MESSAGE_FILTERS |-> <<>>]

RECURSIVE Split(_)
\* String.prototype.split(','): the pieces between the commas, empty ones kept
Split(s) ==
    IF \A i \in 1..Len(s) : s[i] # ","
    THEN <<s>>
    ELSE LET k == CHOOSE i \in 1..Len(s) :
                      s[i] = "," /\ \A j \in 1..(i - 1) : s[j] # ","
         IN  <<SubSeq(s, 1, k - 1)>> \o Split(SubSeq(s, k + 1, Len(s)))

\* String.prototype.includes
Includes(s, sub) ==
    \E i \in 0..(Len(s) - Len(sub)) : SubSeq(s, i + 1, i + Len(sub)) = sub

\* Array.prototype.some over the elements of a list of texts
SomeIncluded(list, s) == \E i \in 1..Len(list) : Includes(s, list[i])

\* process.env.X ? process.env.X.split(',') : undefined.  undefined is
\* modelled as the empty list: split returns no empty list, and the program
\* treats an empty list as it treats undefined (index.js:102-103, 128-129).
watchContainers ==
    IF env.WATCH_CONTAINERS = <<>> THEN <<>> ELSE Split(env.WATCH_CONTAINERS)
filterByMessage ==
    IF env.FILTER_BY_MESSAGE = <<>> THEN <<>> ELSE Split(env.FILTER_BY_MESSAGE)

\* ------------------------------------------------------------ helpers
Remote == LOG_OUTPUT_DESTINATION \in {"AZURE", "BOTH"}

\* a local sink in every mode
Local_always == TRUE

Local == LOG_OUTPUT_DESTINATION \in {"LOCAL", "BOTH"}

\* LOG_OUTPUT_DESTINATION is none of the three modes: uploadLogBatch runs
\* neither its remote nor its local block.
Sinkless == ~Remote /\ ~Local

NoName == [dir |-> NoDir, file |-> ""]
Name(d, c) == [dir |-> d, file |-> c]

\* The UTC calendar date of day d of the run; the clock starts on 2024-02-28.
Calendar(d) ==
    IF d <= 1 THEN [year |-> 2024, month |-> 2, day |-> 28 + d]
              ELSE [year |-> 2024, month |-> 3, day |-> d - 1]

Digit(n) == <<"0", "1", "2", "3", "4", "5", "6", "7", "8", "9">>[n + 1]

RECURSIVE Pad(_, _)
\* the decimal digits of n, padded with zeros to the width w
Pad(n, w) == IF w = 0 THEN <<>> ELSE Pad(n \div 10, w - 1) \o <<Digit(n % 10)>>

\* Date.prototype.toISOString of an instant of day d (the time of day is
\* not modelled: noon), as a sequence of characters
toISOString(d) ==
    LET cal == Calendar(d)
    IN  Pad(cal.year, 4) \o <<"-">> \o Pad(cal.month, 2) \o <<"-">>
        \o Pad(cal.day, 2)
        \o <<"T", "1", "2", ":", "0", "0", ":", "0", "0", ".", "0", "0", "0", "Z">>

\* getDateString(): new Date().toISOString().slice(0, 10)
getDateString == SubSeq(toISOString(date), 1, 10)

\* a destination name computed once, when the module is loaded
ExpectedDestBlobName_atLoad(c) ==
    IF STORE_BY_DATE THEN [dir |-> SubSeq(toISOString(0), 1, 10), file |-> c]
                     ELSE [dir |-> NoDir, file |-> c]

\* `${containerName}.log`, or `${getDateString()}/${containerName}.log`
ExpectedDestBlobName(c) ==
    IF STORE_BY_DATE THEN Name(getDateString, c) ELSE Name(NoDir, c)

\* uploadLogBatch's localFileName: always dated
LocalFileName(c) == Name(getDateString, c)

\* A text made of lines: `lines` joined by "\n" and followed by `nl` times "\n".
NoBody == [lines |-> <<>>, nl |-> 0]

\* One suspended async invocation: who awaits (kind), the container it works
\* on (c), what its loop has still to visit (keys), the I/O call in flight
\* (pc) and the destination of that call (name), the flush's batchContent
\* (body), ensureBlobAppendClient's expectedDestBlobName (expected), the file
\* trackFile works on (file); stale is history: the appendBlock in flight was
\* issued on a name the container's client had been rebound from before.
Idle == [kind |-> "idle", c |-> "", keys |-> <<>>, pc |-> "", body |-> NoBody,
         name |-> NoName, expected |-> NoName, stale |-> FALSE, file |-> ""]

IsStorm == LOG_OUTPUT_DESTINATION = "AZURE" /\ ~STORE_BY_DATE
IsRollover == LOG_OUTPUT_DESTINATION = "AZURE" /\ STORE_BY_DATE

IsProbe == env.FILTER_BY_MESSAGE # <<>> \/ env.WATCH_MESSAGE_FILTERS # <<>>

LineBound ==
    CASE IsProbe -> ProbeLines
      [] IsStorm -> StormLines
      [] LOG_OUTPUT_DESTINATION = "BOTH" -> BothLines
      [] OTHER -> MaxLines
OtherBound ==
    CASE IsProbe -> ProbeOtherLines
      [] IsStorm -> StormOtherLines
      [] OTHER -> OtherLines
TaskBound == IF IsStorm THEN StormTasks ELSE MaxTasks
DayBound ==
    CASE IsProbe -> ProbeDays
      [] IsRollover -> RolloverDays
      [] OTHER -> MaxDay

FailBound ==
    CASE IsProbe -> ProbeFails
      [] LOG_OUTPUT_DESTINATION = "AZURE" -> DeepFails
      [] OTHER -> MaxFails

SignalBound ==
    IF LOG_OUTPUT_DESTINATION = "LOCAL" /\ ~IsProbe THEN RepeatSignals
                                                     ELSE MaxSignals

\* tasks is the sequence of the suspended invocations, oldest first.
Active(t) == t <= Len(tasks)
HasFree == Len(tasks) < TaskBound
Spawn(ts, nt) == IF nt = Idle THEN ts ELSE Append(ts, nt)
SetTask(ts, t, nt) ==
    IF nt = Idle
    THEN [i \in 1..(Len(ts) - 1) |-> IF i < t THEN ts[i] ELSE ts[i + 1]]
    ELSE [ts EXCEPT ![t] = nt]

Running == proc = "running"

InSeq(x, s) == \E i \in 1..Len(s) : s[i] = x

\* batch.map(({ content }) => content).join('\n') + '\n'
batchContent(batch) ==
    [lines |-> [i \in 1..Len(batch) |-> batch[i].content], nl |-> 1]

RECURSIVE SkipEmpty(_, _)
\* uploadAllLogBatches passes over the containers whose batch is empty
\* without any I/O (uploadLogBatch returns at its first test).
SkipEmpty(keys, batches) ==
    IF keys = <<>> THEN <<>>
    ELSE IF Len(batches[Head(keys)]) > 0 THEN keys
    ELSE SkipEmpty(Tail(keys), batches)


\* ------------------------------------------------------------ initial state
\* Module load: the configuration is read, the maps are empty, the timer is
\* registered and main() is suspended at `await globby(LOG_FILES_GLOB)`.
MainAtGlob == [Idle EXCEPT !.kind = "init", !.pc = "glob"]

Loaded ==
    /\ date = 0
    /\ proc = "running"
    /\ online = "starting"
    /\ trackedFiles = {}
    /\ listeners = {}
    /\ blobClients = <<>>
    /\ logBatches = [c \in Containers |-> <<>>]
    /\ batchKeys = <<>>
    /\ tasks = <<MainAtGlob>>
    /\ azureSink = [c \in Containers |-> <<>>]
    /\ localSink = [c \in Containers |-> <<>>]
    /\ appended = [c \in Containers |-> 0]
    /\ nLines = 0
    /\ tracks = [f \in Files |-> 0]
    /\ timers = 1
    /\ nFails = 0
    /\ retired = [c \in Containers |-> {}]
    /\ signalled = FALSE
    /\ nSignals = 0
    /\ drain = "none"
    /\ atSignal = {}
    /\ attempts = [c \in Containers |-> 0]

\* The documented configurations: one of the three modes, the account's
\* credentials, no filter.
Init ==
    /\ LOG_OUTPUT_DESTINATION \in {"AZURE", "LOCAL", "BOTH"}
    /\ STORE_BY_DATE \in BOOLEAN
    /\ env = PlainEnv
    /\ Loaded

\* ------------------------------------------------------------ uploadLogBatch
\* ensureBlobAppendClient's test: no client, or a client bound to another name
NeedsRebind(c, clients) ==
    \/ c \notin DOMAIN clients
    \/ clients[c] # ExpectedDestBlobName(c)

\* uploadLogBatch(c) for a non-empty batch, up to its first I/O call: the body
\* is built from the batch as it is now; then either createIfNotExists (pc
\* "create"), appendBlock on blobClients[c] (pc "append") or fs.appendFile (pc
\* "local") is in flight.  `name` is the destination of the call in flight.
UploadLogBatchEnter(kind, c, rest, batches, clients) ==
    [kind |-> kind, c |-> c, keys |-> rest, file |-> "",
     body |-> batchContent(batches[c]),
     expected |-> IF Remote THEN ExpectedDestBlobName(c) ELSE NoName,
     stale |-> Remote /\ ~NeedsRebind(c, clients) /\ clients[c] \in retired[c],
     pc   |-> IF Remote
              THEN IF NeedsRebind(c, clients) THEN "create" ELSE "append"
              ELSE "local",
     name |-> IF Remote
              THEN IF NeedsRebind(c, clients) THEN ExpectedDestBlobName(c)
                                              ELSE clients[c]
              ELSE LocalFileName(c)]

\* The loop of uploadAllLogBatches from `keys` on, up to the first I/O call.
\* Without a sink no uploadLogBatch makes an I/O call: the loop runs to its
\* end.
Continue(kind, keys, batches, clients) ==
    LET ks == SkipEmpty(keys, batches)
    IN  IF ks = <<>> \/ Sinkless THEN Idle
        ELSE UploadLogBatchEnter(kind, Head(ks), Tail(ks), batches, clients)

\* The batches after that loop has run from `keys` on up to its first I/O
\* call: without a sink every uploadLogBatch reaches its last statement,
\* logBatches[containerName].length = 0, at once.
Passed(keys, batches) ==
    IF Sinkless
    THEN [c \in DOMAIN batches |-> IF InSeq(c, keys) THEN <<>> ELSE batches[c]]
    ELSE batches

IsFlush(task) == task.pc \in {"create", "append", "local"}

\* logBatches[containerName].length = 0
\* a clearing step that empties every container's batch
ClearBatch_all(batches, c) == [d \in DOMAIN batches |-> <<>>]

ClearBatch(batches, c) == [batches EXCEPT ![c] = <<>>]

\* history: a flush attempt begun after the termination signal
Bump(task, counted) ==
    IF IsFlush(task) /\ task.c \in counted
    THEN [attempts EXCEPT ![task.c] = IF @ < MaxAttempts THEN @ + 1 ELSE @]
    ELSE attempts

\* process.exit(code): every suspended invocation is gone with the process.
Exit(code) ==
    /\ proc' = code
    /\ tasks' = <<>>

\* a gracefulShutdown that does not await the rest of its pass
Proceed_exitEarly(t, nt) ==
    IF tasks[t].kind = "shutdown"
    THEN /\ Exit("exit0")
         /\ drain' = "clean"
         /\ UNCHANGED <<attempts, online>>
    ELSE /\ proc' = proc
         /\ drain' = drain
         /\ tasks' = SetTask(tasks, t, nt)
         /\ attempts' = Bump(nt, atSignal)
         /\ online' = IF nt = Idle /\ tasks[t].kind = "init" THEN "online" ELSE online

\* The invocation in slot t goes on as `nt`; a gracefulShutdown whose
\* uploadAllLogBatches has returned reaches process.exit(0); a main() whose
\* trackInitialFiles has returned starts the watcher and is Online.
Proceed(t, nt) ==
    IF nt = Idle /\ tasks[t].kind = "shutdown"
    THEN /\ Exit("exit0")
         /\ drain' = "clean"
         /\ UNCHANGED <<attempts, online>>
    ELSE /\ proc' = proc
         /\ drain' = drain
         /\ tasks' = SetTask(tasks, t, nt)
         /\ attempts' = Bump(nt, atSignal)
         /\ online' = IF nt = Idle /\ tasks[t].kind = "init" THEN "online" ELSE online

CanFail == nFails < FailBound

\* the rejection reaches a catch of the program, which logs it
Caught(task) == task.kind \in {"shutdown", "init"}

\* a gracefulShutdown without its finally block
Throw_noFinally(t) ==
    /\ nFails' = nFails + 1
    /\ CASE tasks[t].kind = "shutdown" ->
              /\ tasks' = SetTask(tasks, t, Idle)
              /\ drain' = "threw"
              /\ UNCHANGED <<proc, online>>
         [] tasks[t].kind = "init" ->
              /\ tasks' = SetTask(tasks, t, Idle)
              /\ online' = "failed"
              /\ UNCHANGED <<proc, drain>>
         [] OTHER ->
              /\ UNCHANGED <<online, drain>>
              /\ \/ proc' = "exit1" /\ tasks' = <<>>
                 \/ /\ tasks' = SetTask(tasks, t, Idle)
                    /\ UNCHANGED proc

\* The I/O call of slot t rejects and the rejection leaves the async function.
\*  - gracefulShutdown: catch logs it, finally calls process.exit(0);
\*  - main(): the .catch logs "Failed to start!"; the watcher is never started;
\*  - timer callback, "line" listener, "add" listener: nothing handles the
\*    rejected promise.  The runtime (Dockerfile: node:21) then ends the
\*    process with code 1, unless it was started with a flag that only warns;
\*    the start script is not part of the sources, so both outcomes are kept.
Throw(t) ==
    /\ nFails' = nFails + 1
    /\ CASE tasks[t].kind = "shutdown" ->
              /\ Exit("exit0")
              /\ drain' = "threw"
              /\ UNCHANGED online
         [] tasks[t].kind = "init" ->
              /\ tasks' = SetTask(tasks, t, Idle)
              /\ online' = "failed"
              /\ UNCHANGED <<proc, drain>>
         [] OTHER ->
              /\ UNCHANGED <<online, drain>>
              /\ \/ Exit("exit1")
                 \/ /\ tasks' = SetTask(tasks, t, Idle)
                    /\ UNCHANGED proc

\* ------------------------------------------------------------ trackFile
Bind(clients, c, name) ==
    [x \in DOMAIN clients \cup {c} |-> IF x = c THEN name ELSE clients[x]]

\* a trackFile that tracks every container, as with no filter
Filtered_none(c) == FALSE

\* trackFile's test on watchContainers: the container is not to be watched
Filtered(c) ==
    /\ Len(watchContainers) > 0
    /\ ~SomeIncluded(watchContainers, NameText(c))

\* the earlier revision's "add" handler: trackFile whatever is tracked
Untracked_always(f, tracked) == TRUE

\* the callers' test `!trackedFiles[f]`
Untracked(f, tracked) == f \notin tracked

\* trackFile was called for f before the rest of the loop gave r
Called(f, r) == [r EXCEPT !.calls = <<f>> \o @]

\* the calls of trackFile counted
Counted(n, calls) ==
    [f \in Files |-> n[f] + Cardinality({i \in 1..Len(calls) : calls[i] = f})]

RECURSIVE TrackFiles(_, _, _, _, _)
\* The callers' loop over `files` (`if (!trackedFiles[f]) await trackFile(f)`)
\* up to the first I/O call.  trackFile marks the file as tracked at once; with
\* a remote sink and no client for the container yet, createBlobClient calls
\* createIfNotExists (pc "bind") and the listener is attached only after it;
\* otherwise the listener is attached without any I/O.  A file whose
\* container is filtered out by watchContainers is marked and left alone.
\* Without the account's credentials containerClient is undefined (index.js:
\* 40-44) and createBlobClient throws at containerClient.getAppendBlobClient:
\* the loop ends there (threw).
TrackFiles(kind, files, tracked, lsn, clients) ==
    IF files = <<>>
    THEN [tracked |-> tracked, lsn |-> lsn, task |-> Idle, threw |-> FALSE,
          calls |-> <<>>]
    ELSE LET f == Head(files)
             c == ContainerNameOf(f)
         IN  IF ~Untracked(f, tracked)
             THEN TrackFiles(kind, Tail(files), tracked, lsn, clients)
             ELSE IF Filtered(c)
             THEN Called(f, TrackFiles(kind, Tail(files), tracked \cup {f}, lsn,
                                       clients))
             ELSE IF Remote /\ c \notin DOMAIN clients /\ ~env.credentials
             THEN [tracked |-> tracked \cup {f}, lsn |-> lsn, task |-> Idle,
                   threw |-> TRUE, calls |-> <<f>>]
             ELSE IF Remote /\ c \notin DOMAIN clients
             THEN [tracked |-> tracked \cup {f}, lsn |-> lsn, threw |-> FALSE,
                   calls |-> <<f>>,
                   task |-> [kind |-> kind, c |-> c, keys |-> Tail(files),
                             pc |-> "bind", body |-> NoBody, file |-> f,
                             expected |-> ExpectedDestBlobName(c), stale |-> FALSE,
                             name |-> ExpectedDestBlobName(c)]]
             ELSE Called(f, TrackFiles(kind, Tail(files), tracked \cup {f},
                                       lsn \cup {f}, clients))

\* the earlier revision: trackFile registers one timer for the file it tracks
TimersAfter_perFile(tracked) == timers + Cardinality(tracked \ trackedFiles)

\* The timers registered once the files of `tracked` have been tracked as
\* well: trackFile calls no setInterval, the only one is at module load.
TimersAfter(tracked) == timers

\* main(): globby has returned `files`; trackInitialFiles runs.  When
\* trackFile throws, main() rejects and its .catch logs "Failed to start!".
TrackInitialFiles(files) ==
    /\ Running
    /\ Active(1)
    /\ tasks[1] = MainAtGlob
    /\ LET r == TrackFiles("init", files, trackedFiles, listeners, blobClients)
       IN  /\ trackedFiles' = r.tracked
           /\ listeners' = r.lsn
           /\ tracks' = Counted(tracks, r.calls)
           /\ timers' = TimersAfter(r.tracked)
           /\ IF r.threw
              THEN /\ tasks' = SetTask(tasks, 1, Idle)
                   /\ online' = "failed"
                   /\ UNCHANGED <<proc, drain, attempts>>
              ELSE Proceed(1, r.task)
    /\ UNCHANGED <<config, date, blobClients, logBatches, batchKeys, azureSink,
                   localSink, appended, nLines, nFails, retired, signalled, nSignals, atSignal>>

\* chokidar "add": the handler tracks a file that is not tracked yet, and
\* does nothing for one that is.  When
\* trackFile throws, nothing handles the rejection of the handler (see Throw).
WatchAdd(f) ==
    /\ Running
    /\ online = "online"
    /\ HasFree
    /\ LET r == TrackFiles("watch", <<f>>, trackedFiles, listeners, blobClients)
       IN  /\ trackedFiles' = r.tracked
           /\ listeners' = r.lsn
           /\ tracks' = Counted(tracks, r.calls)
           /\ timers' = TimersAfter(r.tracked)
           /\ IF r.threw
              THEN \/ Exit("exit1")
                   \/ UNCHANGED <<proc, tasks>>
              ELSE /\ tasks' = Spawn(tasks, r.task)
                   /\ UNCHANGED proc
           /\ UNCHANGED <<online, attempts>>
    /\ UNCHANGED <<config, date, blobClients, logBatches, batchKeys, azureSink,
                   localSink, appended, nLines, nFails, retired, signalled, nSignals,
                   atSignal, drain>>

\* createBlobClient: createIfNotExists resolved; the client is stored, the
\* listener attached, and the caller's loop goes on.
BindDone(t) ==
    /\ Running
    /\ Active(t)
    /\ tasks[t].pc = "bind"
    /\ blobClients' = Bind(blobClients, tasks[t].c, tasks[t].name)
    /\ LET r == TrackFiles(tasks[t].kind, tasks[t].keys, trackedFiles,
                           listeners \cup {tasks[t].file}, blobClients')
       IN  /\ trackedFiles' = r.tracked
           /\ listeners' = r.lsn
           /\ tracks' = Counted(tracks, r.calls)
           /\ timers' = TimersAfter(r.tracked)
           /\ Proceed(t, r.task)
    /\ UNCHANGED <<config, date, logBatches, batchKeys, azureSink, localSink,
                   appended, nLines, nFails, retired, signalled, nSignals, atSignal>>

BindFail(t) ==
    /\ Running
    /\ Active(t)
    /\ tasks[t].pc = "bind"
    /\ CanFail
    /\ Throw(t)
    /\ UNCHANGED <<config, date, trackedFiles, listeners, blobClients, logBatches,
                   batchKeys, azureSink, localSink, appended, nLines, tracks, retired, signalled, nSignals, atSignal,
                   attempts, timers>>

\* ------------------------------------------------------------ line ingest
\* addToLogBatch
AddToLogBatch(batches, c, content) ==
    [batches EXCEPT ![c] = Append(@, [containerName |-> c, content |-> content])]

LinesSoFar == nLines

\* The raw lines.  The text of a log message is made of the characters of
\* TextChars; the JSON syntax around it is kept in whole pieces.
TextChars == {"e", "r", "o", "E", "R", "O"}
LogOpen == "{\"log\":\""
OutClose == "\",\"stream\":\"stdout\"}"
ErrClose == "\",\"stream\":\"stderr\"}"
PlainClose == "\"}"
Closers == {OutClose, ErrClose, PlainClose}

Ore == <<"o", "r", "e">>
Error == <<"e", "r", "r", "o", "r">>
ERROR == <<"E", "R", "R", "O", "R">>

\* the line docker writes for the message `log` on a stream
Obj(log, close) == <<LogOpen>> \o log \o <<close>>

\* The lines a tailed file can emit: JSON objects with and without a stream,
\* JSON that is no object, and text that is no JSON.
RawLines ==
    {Obj(Ore, OutClose), Obj(Ore, ErrClose), Obj(Error, OutClose),
     Obj(ERROR, PlainClose), <<"{}">>, <<"null">>, <<"7">>, Ore, Error, ERROR}

\* the one line of the runs that configure no message filter
PlainLine == Obj(Ore, OutClose)

\* In the runs that set no message-filter variable the text of a line has no
\* influence on what the program does with it: one line stands for all.
Lines == IF IsProbe THEN RawLines ELSE {PlainLine}

\* String.prototype.toLowerCase
Lower(ch) ==
    CASE ch = "E" -> "e" [] ch = "R" -> "r" [] ch = "O" -> "o" [] OTHER -> ch
toLowerCase(s) == [i \in 1..Len(s) |-> Lower(s[i])]

\* JSON.parse on the lines above: the value, or no value (a SyntaxError).  A
\* field that the value does not have reads as undefined.
Undefined == <<"undefined">>
JSONparse(line) ==
    CASE line = <<"null">> ->
            [ok |-> TRUE, type |-> "null", log |-> Undefined, stream |-> ""]
      [] line = <<"7">> ->
            [ok |-> TRUE, type |-> "number", log |-> Undefined, stream |-> ""]
      [] line = <<"{}">> ->
            [ok |-> TRUE, type |-> "object", log |-> Undefined, stream |-> ""]
      [] /\ Len(line) >= 2
         /\ line[1] = LogOpen
         /\ line[Len(line)] \in Closers
         /\ \A i \in 2..(Len(line) - 1) : line[i] \in TextChars ->
            [ok |-> TRUE, type |-> "object",
             log |-> SubSeq(line, 2, Len(line) - 1),
             stream |-> CASE line[Len(line)] = OutClose -> "stdout"
                          [] line[Len(line)] = ErrClose -> "stderr"
                          [] OTHER -> ""]
      [] OTHER ->
            [ok |-> FALSE, type |-> "", log |-> Undefined, stream |-> ""]

\* isError ? "error" : "info"
Level(isError) == IF isError THEN "error" ELSE "info"

\* onLogLine's try block up to addToLogBatch: JSON.parse throws on a line
\* that is no JSON, and `data.stream` throws on null.
TryContent(c, line) ==
    LET data == JSONparse(line)
    IN  IF ~data.ok \/ data.type = "null"
        THEN [threw |-> TRUE, text |-> <<>>]
        ELSE [threw |-> FALSE,
              text |-> <<c, "/[", Level(data.stream = "stderr"), "] : ">>
                       \o data.log]

\* a catch block that does not terminate the content with a newline
CatchContent_bare(c, line) ==
    <<c, "/[", Level(Includes(toLowerCase(line), Error)), "] : ">> \o line

\* onLogLine's catch block
CatchContent(c, line) ==
    <<c, "/[", Level(Includes(toLowerCase(line), Error)), "] : ">>
        \o line \o <<"\n">>

\* the content of the record that onLogLine makes of a line
Content(c, line) ==
    IF TryContent(c, line).threw THEN CatchContent(c, line)
                                 ELSE TryContent(c, line).text

\* onLogLine's shouldLog
shouldLog(line) ==
    \/ Len(filterByMessage) = 0
    \/ SomeIncluded(filterByMessage, toLowerCase(line))

\* A "line" event of file f: onLogLine drops the line when the message
\* filter says so; else it pushes one record and, with the batch at the
\* threshold, calls uploadLogBatch and awaits it.  The record's content is
\* its text, tagged with the ordinal of the record in its container (seq).
OnLogLine(f, line) ==
    LET c  == ContainerNameOf(f)
        nb == AddToLogBatch(logBatches, c,
                            [seq |-> appended[c] + 1, text |-> Content(c, line)])
        full == Len(nb[c]) >= BATCH_SIZE_THRESHOLD
        nt == IF full /\ ~Sinkless
              THEN UploadLogBatchEnter("line", c, <<>>, nb, blobClients)
              ELSE Idle
    IN  /\ Running
        /\ f \in listeners
        /\ line \in Lines
        /\ LinesSoFar < LineBound
        /\ c = "b" => appended[c] < OtherBound
        /\ nLines' = nLines + 1
        /\ IF ~shouldLog(line)
           THEN UNCHANGED <<logBatches, batchKeys, appended, tasks, attempts>>
           ELSE /\ nt # Idle => HasFree
                /\ logBatches' = IF full /\ Sinkless THEN ClearBatch(nb, c) ELSE nb
                /\ batchKeys' = IF InSeq(c, batchKeys) THEN batchKeys
                                                      ELSE Append(batchKeys, c)
                /\ appended' = [appended EXCEPT ![c] = @ + 1]
                /\ IF nt = Idle
                   THEN UNCHANGED <<tasks, attempts>>
                   ELSE /\ tasks' = Spawn(tasks, nt)
                        /\ attempts' = Bump(nt, atSignal)
        /\ UNCHANGED <<config, date, proc, online, trackedFiles, listeners,
                       blobClients, azureSink, localSink, tracks, nFails, retired,
                       signalled, nSignals, atSignal, timers, drain>>

\* ------------------------------------------------------------ timer, signal
NonEmpty == {c \in Containers : Len(logBatches[c]) > 0}

\* setInterval fires: uploadAllLogBatches().  With nothing to flush it returns
\* without a change of state.
TimerTick ==
    LET nt == Continue("tick", batchKeys, logBatches, blobClients)
    IN  /\ Running
        /\ timers > 0
        /\ nt # Idle \/ Passed(batchKeys, logBatches) # logBatches
        /\ nt # Idle => HasFree
        /\ logBatches' = Passed(batchKeys, logBatches)
        /\ tasks' = Spawn(tasks, nt)
        /\ attempts' = Bump(nt, atSignal)
        /\ UNCHANGED <<config, date, proc, online, trackedFiles, listeners,
                       blobClients, batchKeys, azureSink, localSink,
                       appended, nLines, tracks, nFails, retired, signalled, nSignals, atSignal, timers, drain>>

\* SIGINT / SIGTERM: gracefulShutdown awaits uploadAllLogBatches, then exits.
GracefulShutdown ==
    LET nt == Continue("shutdown", batchKeys, logBatches, blobClients)
    IN  /\ Running
        /\ nSignals < SignalBound
        /\ nt # Idle => HasFree
        /\ signalled' = TRUE
        /\ nSignals' = nSignals + 1
        /\ atSignal' = IF signalled THEN atSignal ELSE NonEmpty
        /\ logBatches' = Passed(batchKeys, logBatches)
        /\ IF nt = Idle
           THEN /\ Exit("exit0")
                /\ drain' = "clean"
                /\ UNCHANGED attempts
           ELSE /\ tasks' = Spawn(tasks, nt)
                /\ attempts' = Bump(nt, atSignal')
                /\ UNCHANGED <<proc, drain>>
        /\ UNCHANGED <<config, date, online, trackedFiles, listeners, blobClients,
                       batchKeys, azureSink, localSink, appended, nLines, tracks,
                       nFails, retired, timers>>

\* Midnight UTC passes.
AdvanceDay ==
    /\ Running
    /\ STORE_BY_DATE \/ Local      \* the date is read nowhere else
    /\ date < DayBound
    /\ date' = date + 1
    /\ UNCHANGED <<config, proc, online, trackedFiles, listeners, blobClients,
                   logBatches, batchKeys, tasks, azureSink, localSink, appended,
                   history, timers>>

\* ------------------------------------------------------------ flush steps
\* what appendToLocalLogFile hands to fs.appendFile: content + '\n'
LocalFileContent(content) == [content EXCEPT !.nl = @ + 1]

\* The call in flight of slot t as the sink records it once it has resolved:
\* appendBlock is given batchContent, fs.appendFile what appendToLocalLogFile
\* makes of it.
SinkEntry(t) ==
    [name |-> tasks[t].name,
     shutdown |-> tasks[t].kind = "shutdown",   \* history: written by gracefulShutdown
     body |-> IF tasks[t].pc = "local" THEN LocalFileContent(tasks[t].body)
                                       ELSE tasks[t].body]

\* The rest of uploadLogBatch after its last sink call resolved: the batch is
\* emptied and the caller goes on (next container, return, or process.exit).
Complete(t) ==
    /\ logBatches' = ClearBatch(logBatches, tasks[t].c)
    /\ Proceed(t, Continue(tasks[t].kind, tasks[t].keys, logBatches', blobClients'))

\* appendBlock is issued on blobClients[c], as read after ensureBlobAppendClient.
IssueAppend(t, clients) ==
    [tasks[t] EXCEPT !.pc = "append", !.name = clients[tasks[t].c],
                     !.stale = clients[tasks[t].c] \in retired[tasks[t].c]]

\* fs.appendFile is issued on the local file name, computed at this moment.
IssueLocal(t) ==
    [tasks[t] EXCEPT !.pc = "local", !.name = LocalFileName(tasks[t].c),
                     !.stale = FALSE]

\* ensureBlobAppendClient: createIfNotExists resolved; the new client is
\* stored.  uploadLogBatch then calls appendBlock on blobClients[c].
CreateDone(t) ==
    /\ Running
    /\ Active(t)
    /\ tasks[t].pc = "create"
    /\ blobClients' = Bind(blobClients, tasks[t].c, tasks[t].name)
    /\ retired' = IF tasks[t].c \in DOMAIN blobClients
                     /\ blobClients[tasks[t].c] # tasks[t].name
                  THEN [retired EXCEPT ![tasks[t].c] = @ \cup {blobClients[tasks[t].c]}]
                  ELSE retired
    /\ tasks' = [tasks EXCEPT ![t] = IssueAppend(t, blobClients')]
    /\ UNCHANGED <<config, date, proc, online, trackedFiles, listeners, logBatches,
                   batchKeys, azureSink, localSink, appended, nLines, tracks, nFails, signalled, nSignals, atSignal, attempts, timers, drain>>

CreateFail(t) ==
    /\ Running
    /\ Active(t)
    /\ tasks[t].pc = "create"
    /\ CanFail
    /\ Throw(t)
    /\ UNCHANGED <<config, date, trackedFiles, listeners, blobClients, logBatches,
                   batchKeys, azureSink, localSink, appended, nLines, tracks, retired, signalled, nSignals, atSignal,
                   attempts, timers>>

\* appendBlock resolved: the blob holds the body.  With a local sink the file
\* append is issued next, else the flush completes.
AppendDone(t) ==
    /\ Running
    /\ Active(t)
    /\ tasks[t].pc = "append"
    /\ azureSink' = [azureSink EXCEPT ![tasks[t].c] = Append(@, SinkEntry(t))]
    /\ UNCHANGED blobClients
    /\ IF Local
       THEN /\ tasks' = [tasks EXCEPT ![t] = IssueLocal(t)]
            /\ UNCHANGED <<logBatches, proc, attempts, online, drain>>
       ELSE Complete(t)
    /\ UNCHANGED <<config, date, trackedFiles, listeners, batchKeys, localSink,
                   appended, nLines, tracks, nFails, retired, signalled, nSignals, atSignal, timers>>

AppendFail(t) ==
    /\ Running
    /\ Active(t)
    /\ tasks[t].pc = "append"
    /\ CanFail
    /\ Throw(t)
    /\ UNCHANGED <<config, date, trackedFiles, listeners, blobClients, logBatches,
                   batchKeys, azureSink, localSink, appended, nLines, tracks, retired, signalled, nSignals, atSignal,
                   attempts, timers>>

\* fs.appendFile resolved: the file holds the body; the flush completes.
LocalDone(t) ==
    /\ Running
    /\ Active(t)
    /\ tasks[t].pc = "local"
    /\ localSink' = [localSink EXCEPT ![tasks[t].c] = Append(@, SinkEntry(t))]
    /\ UNCHANGED blobClients
    /\ Complete(t)
    /\ UNCHANGED <<config, date, trackedFiles, listeners, batchKeys, azureSink,
                   appended, nLines, tracks, nFails, retired, signalled, nSignals, atSignal, timers>>

LocalFail(t) ==
    /\ Running
    /\ Active(t)
    /\ tasks[t].pc = "local"
    /\ CanFail
    /\ Throw(t)
    /\ UNCHANGED <<config, date, trackedFiles, listeners, blobClients, logBatches,
                   batchKeys, azureSink, localSink, appended, nLines, tracks, retired, signalled, nSignals, atSignal,
                   attempts, timers>>

\* ------------------------------------------------------------ specification
Next ==
    \/ \E files \in InitialEnumerations : TrackInitialFiles(files)
    \/ \E f \in Files : WatchAdd(f)
    \/ \E t \in Tasks : BindDone(t)
    \/ \E t \in Tasks : BindFail(t)
    \/ \E f \in Files : \E line \in RawLines : OnLogLine(f, line)
    \/ TimerTick
    \/ GracefulShutdown
    \/ AdvanceDay
    \/ \E t \in Tasks : CreateDone(t)
    \/ \E t \in Tasks : CreateFail(t)
    \/ \E t \in Tasks : AppendDone(t)
    \/ \E t \in Tasks : AppendFail(t)
    \/ \E t \in Tasks : LocalDone(t)
    \/ \E t \in Tasks : LocalFail(t)

Spec == Init /\ [][Next]_vars

\* ------------------------------------------------------------ environments
\* The other environments: a LOG_OUTPUT_DESTINATION that is none of the three
\* modes, a remote sink without the account's credentials, a container
\* filter (and, to compare with, both sinks without one), and the
\* message-filter variables.
Comma == <<",">>

ContainerFilters ==
    {<<"a">>, <<"a", "b">>, <<"x">> \o Comma \o <<"b">>, <<"a">> \o Comma}

MessageFilters ==
    {[FILTER_BY_MESSAGE |-> Error, WATCH_MESSAGE_FILTERS |-> <<>>],
     [FILTER_BY_MESSAGE |-> ERROR, WATCH_MESSAGE_FILTERS |-> <<>>],
     [FILTER_BY_MESSAGE |-> <<"7">> \o Comma \o <<"r", "r">>,
      WATCH_MESSAGE_FILTERS |-> <<>>],
     [FILTER_BY_MESSAGE |-> <<>>, WATCH_MESSAGE_FILTERS |-> Error],
     [FILTER_BY_MESSAGE |-> Error, WATCH_MESSAGE_FILTERS |-> Error]}

Environments ==
    {[dest |-> "NONE", byDate |-> FALSE, env |-> PlainEnv]}
    \cup {[dest |-> d, byDate |-> FALSE,
           env |-> [PlainEnv EXCEPT !.credentials = FALSE]] : d \in {"AZURE", "BOTH"}}
    \cup {[dest |-> "BOTH", byDate |-> TRUE,
           env |-> [PlainEnv EXCEPT !.WATCH_CONTAINERS = w]] :
             w \in ContainerFilters \cup {<<>>}}
    \cup {[dest |-> "LOCAL", byDate |-> FALSE,
           env |-> [PlainEnv EXCEPT
                      !.FILTER_BY_MESSAGE = m.FILTER_BY_MESSAGE,
                      !.WATCH_MESSAGE_FILTERS = m.WATCH_MESSAGE_FILTERS]] :
             m \in MessageFilters}

EnvInit ==
    /\ \E e \in Environments :
          /\ LOG_OUTPUT_DESTINATION = e.dest
          /\ STORE_BY_DATE = e.byDate
          /\ env = e.env
    /\ Loaded

EnvSpec == EnvInit /\ [][Next]_vars

\* ------------------------------------------------------------ progress
\* The I/O call of slot t settles: it resolves or rejects.
Settle(t) ==
    \/ BindDone(t) \/ BindFail(t)
    \/ CreateDone(t) \/ CreateFail(t)
    \/ AppendDone(t) \/ AppendFail(t)
    \/ LocalDone(t) \/ LocalFail(t)

\* the runs with both sinks
BothInit == Init /\ LOG_OUTPUT_DESTINATION = "BOTH"

\* Normal operation: the interval timer keeps firing and every I/O call
\* settles.
LiveSpec ==
    /\ BothInit
    /\ [][Next]_vars
    /\ WF_vars(TimerTick)
    /\ \A t \in Tasks : WF_vars(Settle(t))

\* The timer keeps firing and the I/O calls made for container "b" settle;
\* a call made for container "a" may stay pending for ever.
HangSpec ==
    /\ BothInit
    /\ [][Next]_vars
    /\ WF_vars(TimerTick)
    /\ \A t \in Tasks : WF_vars(Active(t) /\ tasks[t].c = "b" /\ Settle(t))

\* ------------------------------------------------------------ observations
FlushesInFlight(c) == {t \in 1..Len(tasks) : IsFlush(tasks[t]) /\ tasks[t].c = c}

\* the ordinals of the records whose contents make up the lines
Seqs(lines) == [i \in 1..Len(lines) |-> lines[i].seq]

Contents(batch) == {batch[i].content.seq : i \in 1..Len(batch)}
InBodies(n, sink) == \E i \in 1..Len(sink) : InSeq(n, Seqs(sink[i].body.lines))

RECURSIVE Flatten(_)
\* the records a sink holds for one container, in the order written
Flatten(sink) ==
    IF sink = <<>> THEN <<>>
    ELSE Seqs(Head(sink).body.lines) \o Flatten(Tail(sink))

Occurrences(n, s) == Cardinality({i \in 1..Len(s) : s[i] = n})

\* the I/O call of slot t rejects in this step
Rejects(t) ==
    /\ nFails' = nFails + 1
    /\ Active(t)
    /\ tasks' = SetTask(tasks, t, Idle) \/ tasks' = <<>>

\* ------------------------------------------------------------ claims

\* C1: a record pushed while a flush of its container is in flight is not
\* removed by that flush's clearing step; no record leaves the batch without
\* having been included in the body of a sink append (written, or in flight).
C1_NoRecordLeavesUnwritten ==
    \A c \in Containers : \A n \in 1..appended[c] :
        \/ n \in Contents(logBatches[c])
        \/ InBodies(n, azureSink[c])
        \/ InBodies(n, localSink[c])
        \/ \E t \in FlushesInFlight(c) : InSeq(n, Seqs(tasks[t].body.lines))

\* C2: at most one flush of a container is in flight at any time.
C2_AtMostOneFlushInFlight ==
    \A c \in Containers : Cardinality(FlushesInFlight(c)) <= 1

\* C3: as long as no sink call has failed, no record is written twice to a
\* sink and, whenever no flush of the container is in flight, the records
\* written to each active sink plus the resident ones are the appended ones.
C3_ExactlyOnce ==
    nFails = 0 =>
        \A c \in Containers :
            /\ Remote => \A n \in 1..appended[c] :
                            Occurrences(n, Flatten(azureSink[c])) <= 1
            /\ Local => \A n \in 1..appended[c] :
                            Occurrences(n, Flatten(localSink[c])) <= 1
            /\ FlushesInFlight(c) = {} =>
                 /\ Remote => Len(Flatten(azureSink[c])) + Len(logBatches[c]) = appended[c]
                 /\ Local => Len(Flatten(localSink[c])) + Len(logBatches[c]) = appended[c]

NonDecreasing(s) == \A i, j \in 1..Len(s) : i < j => s[i] <= s[j]

\* C4: each sink receives a container's records in append order: no record
\* is written after a record that was appended later than it.
C4_SinkOrder ==
    \A c \in Containers :
        /\ NonDecreasing(Flatten(azureSink[c]))
        /\ NonDecreasing(Flatten(localSink[c]))

\* C5: when a sink append of a flush rejects, the failure is logged and the
\* container's batch is emptied all the same: no record of the failed flush
\* is resident afterwards.
C5_FailedFlushDropsBatch ==
    [][\A t \in Tasks :
          (Rejects(t) /\ tasks[t].pc \in {"append", "local"}) =>
              /\ Caught(tasks[t])
              /\ \A i \in 1..Len(tasks[t].body.lines) :
                    tasks[t].body.lines[i].seq \notin Contents(logBatches'[tasks[t].c])]_vars

\* C6: with both sinks, a failed remote step of a flush (createIfNotExists or
\* appendBlock) does not keep the same flush from appending the batch to the
\* local file, and a failed local append leaves the remote append made.
C6_SinksIndependent ==
    [][\A t \in Tasks :
          (Rejects(t) /\ LOG_OUTPUT_DESTINATION = "BOTH") =>
              /\ tasks[t].pc \in {"create", "append"} =>
                    \E u \in 1..Len(tasks') :
                        /\ tasks'[u].pc = "local"
                        /\ tasks'[u].c = tasks[t].c
                        /\ tasks'[u].body = tasks[t].body
              /\ tasks[t].pc = "local" =>
                    \E i \in 1..Len(azureSink[tasks[t].c]) :
                        azureSink[tasks[t].c][i].body = tasks[t].body]_vars

\* C7: every appendBlock is issued on a client bound to the name that the
\* flush's ensureBlobAppendClient expected, and never on a name the
\* container's client had been rebound from before the call.  (Stated for
\* the runs in which no I/O call rejects.)
C7_Rollover ==
    nFails = 0 =>
        \A t \in 1..Len(tasks) :
            tasks[t].pc = "append" =>
                /\ tasks[t].name = tasks[t].expected
                /\ ~tasks[t].stale

\* C8: when createIfNotExists rejects in ensureBlobAppendClient, the stored
\* client and the batch are left as they are, the failure is logged, and the
\* process goes on running (unless it is shutting down), so that the next
\* tick binds again.
C8_RebindFailureRetried ==
    [][\A t \in Tasks :
          (Rejects(t) /\ tasks[t].pc = "create") =>
              /\ blobClients' = blobClients
              /\ logBatches' = logBatches
              /\ Caught(tasks[t])
              /\ tasks[t].kind # "shutdown" => proc' = "running"]_vars

\* C9: a container's resident batch never holds more than
\* BATCH_SIZE_THRESHOLD + 1 records.
C9_ThresholdBound ==
    \A c \in Containers : Len(logBatches[c]) <= BATCH_SIZE_THRESHOLD + 1

\* C10: when gracefulShutdown has exited, exactly one flush was attempted
\* since the signal for every container whose batch was non-empty at the
\* signal.
C10_ShutdownFlushOnce ==
    proc = "exit0" =>
        \A c \in atSignal : attempts[c] = 1

\* C19: exactly one interval timer is registered in every reachable state,
\* however many files are tracked.
C19_OneTimer == timers = 1

C19_Witness ==
    /\ trackedFiles = Files
    /\ listeners = Files
    /\ timers = 1
    /\ proc = "running"

\* C20: the local file name of a flush follows the remote naming logic: it
\* is dated only when STORE_BY_DATE is set, and with both sinks it equals
\* the blob name expected by that flush.
C20_LocalNameLikeRemote ==
    \A t \in 1..Len(tasks) :
        tasks[t].pc = "local" =>
            /\ ~STORE_BY_DATE => tasks[t].name = Name(NoDir, tasks[t].c)
            /\ Remote => tasks[t].name = tasks[t].expected

\* C13: once a termination signal has been received, no onLogLine adds a
\* record to a batch.
C13_NoIngestAfterSignal ==
    [][signalled => appended' = appended]_vars

\* C15: the process exits with code 0 when the final flush ended without an
\* error and with code 1 when it threw.
C15_ExitStatus ==
    /\ drain = "clean" => proc = "exit0"
    /\ drain = "threw" => proc = "exit1"

\* C18: a timer pass attempts every container with a non-empty batch, also
\* those that come after a container whose flush rejects, and starts no I/O
\* for an empty batch.
C18_TickFlushesAll ==
    [][/\ \A t \in Tasks :
            (/\ Rejects(t)
             /\ tasks[t].kind = "tick"
             /\ SkipEmpty(tasks[t].keys, logBatches) # <<>>) =>
                \E u \in 1..Len(tasks') :
                    /\ tasks'[u].kind = "tick"
                    /\ IsFlush(tasks'[u])
                    /\ tasks'[u].c = Head(SkipEmpty(tasks[t].keys, logBatches))
       /\ \A u \in 1..Len(tasks') :
            IsFlush(tasks'[u]) => tasks'[u].body.lines # <<>>]_vars

\* the sink call of slot t resolves in this step
Resolves(t) ==
    LET c == tasks[t].c
    IN  \/ tasks[t].pc = "local" /\ localSink'[c] = Append(localSink[c], SinkEntry(t))
        \/ tasks[t].pc = "append" /\ azureSink'[c] = Append(azureSink[c], SinkEntry(t))

\* C12: process.exit(0) is called only when the pass of the gracefulShutdown
\* that calls it has no sink call unsettled: either the pass found nothing to
\* flush, or its call in flight rejects in this step, or that call resolves
\* in this step and the pass has no further sink call to make.
C12_ExitAfterSettled ==
    [][(proc = "running" /\ proc' = "exit0") =>
          \/ /\ nSignals' = nSignals + 1
             /\ Continue("shutdown", batchKeys, logBatches, blobClients) = Idle
          \/ \E t \in 1..Len(tasks) :
                /\ tasks[t].kind = "shutdown"
                /\ \/ nFails' = nFails + 1
                   \/ /\ Resolves(t)
                      /\ tasks[t].pc = "append" => ~Local
                      /\ Continue("shutdown", tasks[t].keys, logBatches',
                                  blobClients') = Idle]_vars

C12_Witness ==
    /\ proc = "exit0"
    /\ drain = "clean"
    /\ atSignal = Containers
    /\ \A c \in Containers : localSink[c] # <<>> \/ azureSink[c] # <<>>

\* C14: when the final flush throws the process exits all the same, and
\* with every I/O call settling a termination signal always leads to the
\* end of the process.
C14_ShutdownTerminates ==
    /\ [](drain = "threw" => proc = "exit0")
    /\ (signalled ~> proc # "running")

C14_Witness ==
    /\ drain = "threw"
    /\ proc = "exit0"
    /\ nFails > 0

\* record n of container c is in the body of an append made to every active sink
Delivered(c, n) ==
    /\ Remote => InBodies(n, azureSink[c])
    /\ Local => InBodies(n, localSink[c])

\* C11: with the timer firing and every sink call settling, every record
\* pushed to a batch before any termination signal is eventually in the
\* body of an append to each active sink, unless an I/O call has failed.
C11_EventualDelivery ==
    \A c \in Containers : \A n \in 1..MaxLines :
        (appended[c] >= n /\ ~signalled) ~> (nFails > 0 \/ Delivered(c, n))

\* C16: after a termination signal the process eventually exits, even when
\* a sink call of the final flush never settles.
C16_ShutdownBounded == signalled ~> proc # "running"

\* a timer pass is suspended with container c still to visit
PassPending(c) ==
    \E t \in 1..Len(tasks) : tasks[t].kind = "tick" /\ InSeq(c, tasks[t].keys)

\* C17: with the calls made for container "a" pending for ever, a record of
\* container "b", whose calls settle, is still written to the active sinks
\* once a timer pass has "b" to visit (in the runs without a failed call and
\* without a termination signal).
C17_OtherContainerProgress ==
    \A n \in 1..MaxLines :
        (appended["b"] >= n /\ PassPending("b")) ~>
            (Delivered("b", n) \/ nFails > 0 \/ signalled)

\* C23: a rejection of a sink call or of createIfNotExists during a flush
\* started by the timer or by the threshold is caught and logged, and the
\* process keeps running with its timer.
C23_FlushErrorContained ==
    [][\A t \in Tasks :
          (Rejects(t) /\ IsFlush(tasks[t]) /\ tasks[t].kind \in {"tick", "line"}) =>
              /\ Caught(tasks[t])
              /\ proc' = "running"
              /\ timers' > 0]_vars

\* C29: in mode LOCAL no remote operation is ever made (no client is bound,
\* no createIfNotExists or appendBlock is issued or done); in mode AZURE no
\* local file append is ever issued or done; in mode BOTH a flush that
\* empties its batch without a rejection does so when its local append
\* resolves, the same body having been appended to the blob before.
C29_ModeRouting ==
    [][/\ LOG_OUTPUT_DESTINATION = "LOCAL" =>
            /\ blobClients' = <<>>
            /\ azureSink' = azureSink
            /\ \A u \in 1..Len(tasks') :
                  tasks'[u].pc \notin {"bind", "create", "append"}
       /\ LOG_OUTPUT_DESTINATION = "AZURE" =>
            /\ localSink' = localSink
            /\ \A u \in 1..Len(tasks') : tasks'[u].pc # "local"
       /\ LOG_OUTPUT_DESTINATION = "BOTH" =>
            \A c \in Containers :
                (/\ logBatches[c] # <<>>
                 /\ logBatches'[c] = <<>>
                 /\ nFails' = nFails) =>
                    \E t \in FlushesInFlight(c) :
                        /\ tasks[t].pc = "local"
                        /\ Resolves(t)
                        /\ \E i \in 1..Len(azureSink[c]) :
                              azureSink[c][i].body = tasks[t].body]_vars

C29_Witness ==
    /\ LOG_OUTPUT_DESTINATION = "BOTH"
    /\ logBatches["a"] = <<>>
    /\ azureSink["a"] # <<>>
    /\ localSink["a"] # <<>>
    /\ Len(localSink["a"]) = Len(azureSink["a"])

\* the contents are those of consecutive records, in append order
InAppendOrder(lines) ==
    \A i \in 1..(Len(lines) - 1) : lines[i + 1].seq = lines[i].seq + 1

\* C21: the body every sink append has received is the contents of the
\* flushed records, in append order, joined by newlines and followed by
\* exactly one trailing newline.
C21_BodyOneTrailingNewline ==
    \A c \in Containers :
        /\ \A i \in 1..Len(azureSink[c]) :
              /\ azureSink[c][i].body.lines # <<>>
              /\ InAppendOrder(azureSink[c][i].body.lines)
              /\ azureSink[c][i].body.nl = 1
        /\ \A i \in 1..Len(localSink[c]) :
              /\ localSink[c][i].body.lines # <<>>
              /\ InAppendOrder(localSink[c][i].body.lines)
              /\ localSink[c][i].body.nl = 1

\* slot u of tasks' holds a flush that was begun in this step
Begun(u) ==
    /\ u <= Len(tasks')
    /\ IsFlush(tasks'[u])
    /\ \/ u > Len(tasks)
       \/ Len(tasks') = Len(tasks) /\ ~IsFlush(tasks[u])
       \/ Len(tasks') = Len(tasks) /\ tasks'[u].c # tasks[u].c

\* "YYYY-MM-DD" of the UTC calendar date of day d
IsoDay(d) ==
    Pad(Calendar(d).year, 4) \o <<"-">> \o Pad(Calendar(d).month, 2)
        \o <<"-">> \o Pad(Calendar(d).day, 2)

\* C27: the destination name expected by a flush with a remote sink is
\* '<c>.log' without date partitioning and '<YYYY-MM-DD>/<c>.log' with it,
\* the date being the zero-padded UTC calendar date of the moment the flush
\* begins: it is computed anew by every flush.
C27_DestinationName ==
    [][\A u \in Tasks :
          (Begun(u) /\ Remote) =>
              /\ tasks'[u].expected.file = tasks'[u].c
              /\ ~STORE_BY_DATE => tasks'[u].expected.dir = NoDir
              /\ STORE_BY_DATE =>
                    /\ tasks'[u].expected.dir = IsoDay(date)
                    /\ Len(tasks'[u].expected.dir) = 10]_vars

C27_Witness ==
    /\ STORE_BY_DATE
    /\ date = 2
    /\ \E t \in 1..Len(tasks) :
          /\ tasks[t].pc = "create"
          /\ tasks[t].expected.dir = <<"2", "0", "2", "4", "-", "0", "3", "-", "0", "1">>
          /\ blobClients[tasks[t].c].dir = <<"2", "0", "2", "4", "-", "0", "2", "-", "2", "9">>

\* C30: whatever LOG_OUTPUT_DESTINATION is, a batch is emptied only when
\* its content has been passed to a sink append: the oldest record of a
\* batch that a step empties is in the body of an append that has been made
\* to the blob or to the local file by the end of the step.
C30_ClearedOnlyIfWritten ==
    [][\A c \in Containers :
          (logBatches[c] # <<>> /\ logBatches'[c] = <<>>) =>
              \/ InBodies(logBatches[c][1].content.seq, azureSink'[c])
              \/ InBodies(logBatches[c][1].content.seq, localSink'[c])]_vars

\* C22: with a remote sink selected and the storage account's name or key
\* missing, the process never reaches Online, never receives a line, and
\* does not stay alive once its start has failed.
C22_MissingCredentialsFatal ==
    (Remote /\ ~env.credentials) =>
        /\ online # "online"
        /\ nLines = 0
        /\ online = "failed" => proc # "running"

\* the container name contains none of the substrings listed in WATCH_CONTAINERS
NotListed(c) ==
    /\ env.WATCH_CONTAINERS # <<>>
    /\ \A i \in 1..Len(Split(env.WATCH_CONTAINERS)) :
          ~Includes(NameText(c), Split(env.WATCH_CONTAINERS)[i])

\* C28: with WATCH_CONTAINERS set, a log file whose container name contains
\* none of the listed substrings never has a line listener, a blob client or
\* a batch; with WATCH_CONTAINERS unset or empty every file that trackFile
\* has been called for has its listener as soon as its client is created
\* (stated for the runs in which the client can be created: the credentials
\* are set and no I/O call has failed).
C28_ContainerFilter ==
    \A f \in Files :
        /\ NotListed(ContainerNameOf(f)) =>
              /\ f \notin listeners
              /\ ContainerNameOf(f) \notin DOMAIN blobClients
              /\ logBatches[ContainerNameOf(f)] = <<>>
              /\ ~InSeq(ContainerNameOf(f), batchKeys)
              /\ \A t \in 1..Len(tasks) : tasks[t].c # ContainerNameOf(f)
        /\ (/\ env.WATCH_CONTAINERS = <<>>
            /\ f \in trackedFiles
            /\ proc = "running"
            /\ nFails = 0
            /\ Remote => env.credentials
            /\ \A t \in 1..Len(tasks) :
                  ~(tasks[t].pc = "bind" /\ tasks[t].file = f)) =>
              f \in listeners

C28_Witness ==
    /\ env.WATCH_CONTAINERS = <<"a">>
    /\ trackedFiles = Files
    /\ listeners = {"a_1.log"}
    /\ "a" \in DOMAIN blobClients
    /\ appended["a"] > 0

\* the line contains one of the substrings, compared without regard to case
ContainsAny(list, line) ==
    \E i \in 1..Len(list) : Includes(toLowerCase(line), toLowerCase(list[i]))

\* C24: with no message filter every line is kept; with one, a line is kept
\* exactly when it contains at least one of the configured substrings,
\* compared without regard to case.  A kept line adds one record; a dropped
\* line adds none and starts no flush.
C24_MessageFilter ==
    [][\A f \in Files : \A line \in RawLines :
          OnLogLine(f, line) =>
              IF \/ env.FILTER_BY_MESSAGE = <<>>
                 \/ ContainsAny(Split(env.FILTER_BY_MESSAGE), line)
              THEN appended'[ContainerNameOf(f)] = appended[ContainerNameOf(f)] + 1
              ELSE /\ appended' = appended
                   /\ logBatches' = logBatches
                   /\ tasks' = tasks]_vars

\* C25: with WATCH_MESSAGE_FILTERS set to a non-empty list, a line that
\* contains none of the listed substrings is added to no batch (and so
\* reaches no sink).
C25_WatchMessageFilters ==
    [][\A f \in Files : \A line \in RawLines :
          (/\ OnLogLine(f, line)
           /\ env.WATCH_MESSAGE_FILTERS # <<>>
           /\ ~ContainsAny(Split(env.WATCH_MESSAGE_FILTERS), line)) =>
              /\ appended' = appended
              /\ logBatches' = logBatches]_vars

\* C26: a kept line never makes onLogLine's classification raise and adds
\* exactly one record.  For a line that decodes as a JSON object (with a log
\* field) the level is "error" exactly when its stream is "stderr" and the
\* content is '<container>/[<level>] : <log>'; for a line that does not
\* decode the level is "error" exactly when the lower-cased line contains
\* "error" and the content is '<container>/[<level>] : <line>' followed by
\* one newline.  (Observed on the batch after the step, in the runs with a
\* sink: without one a full batch is emptied within the same step.)
C26_Classification ==
    [][\A f \in Files : \A line \in RawLines :
          (OnLogLine(f, line) /\ shouldLog(line) /\ ~Sinkless) =>
              LET c == ContainerNameOf(f)
                  data == JSONparse(line)
                  rec == logBatches'[c][Len(logBatches'[c])]
              IN  /\ proc' = proc
                  /\ appended'[c] = appended[c] + 1
                  /\ Len(logBatches'[c]) = Len(logBatches[c]) + 1
                  /\ SubSeq(logBatches'[c], 1, Len(logBatches[c])) = logBatches[c]
                  /\ rec.containerName = c
                  /\ (data.ok /\ data.type = "object" /\ data.log # Undefined) =>
                        rec.content.text =
                            <<c, "/[", IF data.stream = "stderr" THEN "error" ELSE "info",
                              "] : ">> \o data.log
                  /\ ~data.ok =>
                        rec.content.text =
                            <<c, "/[",
                              IF Includes(toLowerCase(line), <<"e", "r", "r", "o", "r">>)
                              THEN "error" ELSE "info",
                              "] : ">> \o line \o <<"\n">>]_vars

C26_Witness ==
    /\ Len(logBatches["a"]) = 2
    /\ logBatches["a"][1].content.text =
          <<"a", "/[", "error", "] : ", "E", "R", "R", "O", "R", "\n">>
    /\ logBatches["a"][2].content.text = <<"a", "/[", "error", "] : ", "o", "r", "e">>

C32_TrackedHasListener ==
    \A f \in trackedFiles :
        (/\ proc = "running"
         /\ ~Filtered(ContainerNameOf(f))
         /\ \A t \in 1..Len(tasks) :
               ~(tasks[t].pc = "bind" /\ tasks[t].file = f)) =>
            f \in listeners

\* C33: when trackFile fails for a file of the initial enumeration, the
\* rest of the enumerated files are tracked all the same and the start is
\* not given up: the watcher is still to be started.
C33_InitialFailureIsolated ==
    [][\A t \in Tasks :
          (Rejects(t) /\ tasks[t].kind = "init" /\ tasks[t].pc = "bind") =>
              /\ online' # "failed"
              /\ \A i \in 1..Len(tasks[t].keys) :
                    tasks[t].keys[i] \in trackedFiles']_vars

\* C34: trackFile runs at most once for a path, whatever "add" events
\* arrive for it, also while its createBlobClient is awaited: the files with
\* a listener are among those trackFile ran for exactly once.
C34_TrackedOnce ==
    \A f \in Files :
        /\ tracks[f] <= 1
        /\ f \in trackedFiles <=> tracks[f] = 1
        /\ f \in listeners => tracks[f] = 1

C34_Witness ==
    /\ online = "online"
    /\ \E t \in 1..Len(tasks) :
          /\ tasks[t].kind = "watch"
          /\ tasks[t].pc = "bind"
          /\ tracks[tasks[t].file] = 1
    /\ \E f \in listeners : tracks[f] = 1 /\ nLines > 0

\* a flush pass of gracefulShutdown is awaiting a sink call
ShutdownInFlight == \E t \in 1..Len(tasks) : tasks[t].kind = "shutdown"

\* the signal of this step arrives during gracefulShutdown's flush and
\* starts a flush pass of its own
SecondPass ==
    /\ nSignals' = nSignals + 1
    /\ ShutdownInFlight
    /\ Len(tasks') > Len(tasks)

\* the sink call of shutdown flush t resolves in this step and writes a
\* record that a shutdown flush had written to the same sink before
WrittenAgain(t) ==
    /\ Active(t)
    /\ tasks[t].kind = "shutdown"
    /\ Resolves(t)
    /\ LET c == tasks[t].c
           sink == IF tasks[t].pc = "local" THEN localSink[c] ELSE azureSink[c]
       IN  \E i \in 1..Len(sink) : \E j \in 1..Len(tasks[t].body.lines) :
              /\ sink[i].shutdown
              /\ InSeq(tasks[t].body.lines[j].seq, Seqs(sink[i].body.lines))

\* C35: a termination signal that arrives while gracefulShutdown's final
\* flush is in flight starts no second flush pass, and no shutdown flush
\* writes to a sink a record that a shutdown flush has written there.
C35_RepeatedSignalsHarmless ==
    [][~SecondPass /\ \A t \in Tasks : ~WrittenAgain(t)]_vars

\* the records of `lines` are records of container c
RecordsOf(c, lines) ==
    \A i \in 1..Len(lines) :
        /\ lines[i].text[1] = c
        /\ lines[i].seq \in 1..appended[c]

\* every sink append issued by a flush of c, in flight or settled, carries
\* records of c only, to a destination named after c
OwnAppends ==
    /\ \A t \in 1..Len(tasks) :
          IsFlush(tasks[t]) =>
              /\ RecordsOf(tasks[t].c, tasks[t].body.lines)
              /\ tasks[t].name.file = tasks[t].c
    /\ \A c \in Containers :
          /\ \A i \in 1..Len(azureSink[c]) :
                /\ RecordsOf(c, azureSink[c][i].body.lines)
                /\ azureSink[c][i].name.file = c
          /\ \A i \in 1..Len(localSink[c]) :
                /\ RecordsOf(c, localSink[c][i].body.lines)
                /\ localSink[c][i].name.file = c

\* this step changes neither the batch nor the stored handle of a container
\* other than c
OthersUntouched(c) ==
    \A d \in Containers \ {c} :
        /\ logBatches'[d] = logBatches[d]
        /\ d \in DOMAIN blobClients' <=> d \in DOMAIN blobClients
        /\ d \in DOMAIN blobClients => blobClients'[d] = blobClients[d]

\* C36: the body of every sink append issued by a flush of c holds only
\* records appended for c and its destination is named after c; a step of a
\* flush of c (its start by the timer, the threshold or the shutdown, and
\* the settling of each of its I/O calls) leaves the batch and the stored
\* handle of every other container unchanged.
C36_ContainerIsolation ==
    /\ []OwnAppends
    /\ [][/\ \A t \in Tasks :
                Active(t) /\ IsFlush(tasks[t]) =>
                    (OthersUntouched(tasks[t].c) \/ ~Settle(t))
          /\ \A u \in Tasks :
                (Begun(u) /\ u > Len(tasks)) => OthersUntouched(tasks'[u].c)]_vars

C36_Witness ==
    /\ Remote
    /\ \A c \in Containers : Len(azureSink[c]) > 0
    /\ \E c \in Containers : logBatches[c] # <<>> /\ c \in DOMAIN blobClients
====
